---- MODULE Spec2Model ----
(***************************************************************************)
(* A model of the graph core of the repository (Graph, GraphNode,          *)
(* GraphEdge, the layout driver and the numeric step of                    *)
(* GraphLayoutForceDirected) and of the LayerManager.                      *)
(*                                                                         *)
(* One root Graph is modelled together with the GraphNode and GraphEdge    *)
(* objects a client hands to it, the subgraph held in this.subGraph and    *)
(* the layout objects a client constructs on the root graph.  A JS Map is  *)
(* a sequence of <<key, value>> pairs and a JS Set a sequence without      *)
(* repeats, both in insertion order, which is the order the code iterates. *)
(***************************************************************************)
EXTENDS Integers, Sequences, FiniteSets, TLC

\* ------------------------------------------------------------------ bounds

\* Cap on GraphNode.degree (the counter of addAdjacentNode calls on a node).
MaxDegree == 2
\* Cap on the addAdjacentNode calls made in all by the client of Spec.
MaxLinks == 2
\* Largest explicit numHops argument tried.
MaxHops == 2
\* Number of layout objects a client constructs.
MaxLayouts == 2
\* Cap on GraphLayoutForceDirected.currentStep.
MaxSteps == 2

\* ------------------------------------------------------- program constants

\* The JS value Infinity of GraphNode.distance: above every hop count.
Infinity == 1000
\* generateSubGraph({startNodeID, numHops = 3}).
DefaultNumHops == 3
\* The JS value undefined where an id is expected.
Undefined == "undefined"
\* The JS value null of Graph.layout; a layout object is referred to by its
\* index, from 1, in layouts.
Null == 0

\* ---------------------------------------------------------------- objects

Ids == {"a", "b", "c"}

\* The order of the ids in which the client of Spec registers its nodes.
IdBefore(id1, id2) == <<id1, id2>> \in {<<"a", "b">>, <<"a", "c">>, <<"b", "c">>}

\* new GraphNode({id, type}): the immutable fields identify the object.
GraphNode(id, type) == [id |-> id, type |-> type]

\* Node objects with pairwise distinct ids.
UniqueNodeObjs ==
  { GraphNode("a", "driver"), GraphNode("b", "driver"), GraphNode("c", "device") }

\* The node objects a client creates; two of them carry the id "a".
NodeObjs == UniqueNodeObjs \cup { GraphNode("a", "rider") }

\* The key `${node1.id}_${node2.id}` of _getEdgeIDFromNodes.
EdgeKey(id1, id2) == id1 \o "_" \o id2

\* new GraphEdge({id, node0, node1, type}).
GraphEdge(id, node0, node1) == [id |-> id, node0 |-> node0, node1 |-> node1]

\* Edge objects with pairwise distinct ids.
UniqueEdgeObjs ==
  { GraphEdge(EdgeKey("a", "b"), GraphNode("a", "driver"), GraphNode("b", "driver")),
    GraphEdge(EdgeKey("b", "c"), GraphNode("b", "driver"), GraphNode("c", "device")) }

\* The edge objects a client creates; two of them carry the id "a_b".
EdgeObjs ==
  UniqueEdgeObjs \cup
  { GraphEdge(EdgeKey("a", "b"), GraphNode("b", "driver"), GraphNode("a", "driver")) }

\* ------------------------------------------------------------ Map and Set

MapHas(m, k) == \E i \in DOMAIN m : m[i][1] = k

MapGet(m, k) == m[CHOOSE i \in DOMAIN m : m[i][1] = k][2]

MapSet(m, k, v) ==
  IF MapHas(m, k)
  THEN [i \in DOMAIN m |-> IF m[i][1] = k THEN <<k, v>> ELSE m[i]]
  ELSE Append(m, <<k, v>>)

MapKeys(m) == {m[i][1] : i \in DOMAIN m}

MapValues(m) == {m[i][2] : i \in DOMAIN m}

SetHas(s, x) == \E i \in DOMAIN s : s[i] = x

SetAdd(s, x) == IF SetHas(s, x) THEN s ELSE Append(s, x)

\* ------------------------------------------------------------------ state

VARIABLES
  graph,       \* the root Graph object
  node,        \* the mutable fields of every GraphNode: adjacentSet, degree, distance
  layouts,     \* the GraphLayoutForceDirected objects constructed so far
  firstNodes,  \* history: the first object passed to addNode under each id
  firstEdges,  \* history: the first object passed to addEdge under each id
  call         \* the latest operation when it was addNode or addEdge (its
               \* argument), generateSubGraph (its arguments, the seed used,
               \* the error thrown and this.subGraph, the Graph it built) or a
               \* driver tick (what it did); NoCall after any other operation

VARIABLES
  forceLayout,   \* the GraphLayoutForceDirected object whose buffers are modelled
                 \* in full, with the Graph it was constructed on
  layerManager,  \* the LayerManager object
  layer,         \* the mutable fields of every Layer: state, oldProps
  layerState     \* the state objects of the layers, referred to by their index

layerVars == <<layerManager, layer, layerState>>

vars == <<graph, node, layouts, firstNodes, firstEdges, call, forceLayout, layerVars>>

NoCall == [op |-> "none"]

\* Graph.constructor: layout is Null or the index in layouts of the installed one.
Graph(isSubGraph) ==
  [ nodes |-> <<>>, edges |-> <<>>,
    nodeIndexMap |-> <<>>, nodeMap |-> <<>>,
    edgeIndexMap |-> <<>>, edgeIDMap |-> <<>>,
    edgeNodeIndex |-> <<>>,
    numberOfNodes |-> 0, numberOfEdges |-> 0,
    isSubGraph |-> isSubGraph,
    layout |-> Null, layoutRunning |-> FALSE,
    dataStructureChanged |-> FALSE, dataChanged |-> FALSE ]

\* GraphNode.constructor: the mutable fields.
NodeFields == [adjacentSet |-> <<>>, distance |-> Infinity, degree |-> 0]

\* ------------------------------------------------------- addNode, addEdge

\* addNode without the has() test: every call stores and counts.
addNodeUnguarded(g, n) ==
  [g EXCEPT !.nodes = MapSet(g.nodes, n.id, n),
            !.numberOfNodes = g.numberOfNodes + 1,
            !.dataStructureChanged = TRUE]

\* Graph.addNode applied to a graph record.
addNode(g, n) ==
  IF ~MapHas(g.nodes, n.id)
  THEN [g EXCEPT !.nodes = MapSet(g.nodes, n.id, n),
                 !.numberOfNodes = g.numberOfNodes + 1,
                 !.dataStructureChanged = TRUE]
  ELSE g

\* Graph.addEdge applied to a graph record.
addEdge(g, e) ==
  IF ~MapHas(g.edges, e.id)
  THEN [g EXCEPT !.edges = MapSet(g.edges, e.id, e),
                 !.numberOfEdges = g.numberOfEdges + 1,
                 !.dataStructureChanged = TRUE]
  ELSE g

\* The first object recorded under each id: what a first-writer-wins store holds.
RecordFirst(first, o) ==
  IF \E p \in first : p.id = o.id THEN first ELSE first \cup {o}

\* graph.addNode(n) for a node object n of the set objs.
AddNode(objs) ==
  \E n \in objs :
    /\ graph' = addNode(graph, n)
    /\ firstNodes' = RecordFirst(firstNodes, n)
    /\ call' = [op |-> "addNode", arg |-> n]
    /\ UNCHANGED <<node, layouts, firstEdges, forceLayout, layerVars>>

\* graph.addEdge(e) for an edge object e of the set objs.
AddEdge(objs) ==
  \E e \in objs :
    /\ graph' = addEdge(graph, e)
    /\ firstEdges' = RecordFirst(firstEdges, e)
    /\ call' = [op |-> "addEdge", arg |-> e]
    /\ UNCHANGED <<node, layouts, firstNodes, forceLayout, layerVars>>

\* GraphNode.addAdjacentNode applied to the fields of a node.
addAdjacentNode(f, other) ==
  [f EXCEPT !.adjacentSet = SetAdd(f.adjacentSet, other),
            !.degree = f.degree + 1]

RECURSIVE SumDegrees(_, _)
SumDegrees(nd, objs) ==
  IF objs = {} THEN 0
  ELSE LET o == CHOOSE x \in objs : TRUE
       IN nd[o].degree + SumDegrees(nd, objs \ {o})

\* n.addAdjacentNode(other): a client links two different nodes it has
\* registered in the graph, making at most maxLinks such calls.
AddAdjacentNode(maxLinks) ==
  \E n \in MapValues(graph.nodes), other \in MapValues(graph.nodes) :
    /\ n # other
    /\ node[n].degree < MaxDegree
    /\ SumDegrees(node, NodeObjs) < maxLinks
    /\ node' = [node EXCEPT ![n] = addAdjacentNode(node[n], other)]
    /\ call' = NoCall
    /\ UNCHANGED <<graph, layouts, firstNodes, firstEdges, forceLayout, layerVars>>

\* ------------------------------------------------------- generateSubGraph

\* Graph._getEdgeIDFromNodes: <<edge>> for the edge stored under either key,
\* <<>> for undefined.
getEdgeIDFromNodes(edges, node1, node2) ==
  IF MapHas(edges, EdgeKey(node1.id, node2.id))
  THEN <<MapGet(edges, EdgeKey(node1.id, node2.id))>>
  ELSE IF MapHas(edges, EdgeKey(node2.id, node1.id))
  THEN <<MapGet(edges, EdgeKey(node2.id, node1.id))>>
  ELSE <<>>

\* for (const x in iterator): for-in enumerates the enumerable string-keyed
\* properties of the iterator object itself, and a Map iterator has none.
ForInKeys(iterator) == <<>>

\* Graph._resetDistance: both loops are for-in loops over a Map iterator, so
\* their bodies run once per enumerable property of the iterator.
resetDistance(g, nd) ==
  LET nodeKeys == ForInKeys(g.nodes)
      edgeKeys == ForInKeys(g.edges)
  IN [o \in DOMAIN nd |->
        IF \E i \in DOMAIN nodeKeys : nodeKeys[i] = o
        THEN [nd[o] EXCEPT !.distance = Infinity]
        ELSE nd[o]]

\* Lines 92-100: the loop that picks the seed when startNodeID is undefined.
RECURSIVE DefaultSeedLoop(_, _, _, _)
DefaultSeedLoop(entries, nd, maxEdge, maxNodeID) ==
  IF entries = <<>> THEN maxNodeID
  ELSE LET key == Head(entries)[1]
           n == Head(entries)[2]
       IN IF nd[n].degree > maxEdge /\ n.type = "driver"
          THEN DefaultSeedLoop(Tail(entries), nd, Len(nd[n].adjacentSet), key)
          ELSE DefaultSeedLoop(Tail(entries), nd, maxEdge, maxNodeID)

DefaultSeed(g, nd) == DefaultSeedLoop(g.nodes, nd, 0, Undefined)

\* The test of line 132 without its has() half.
EdgeIsNewUnguarded(sub, found) == found # <<>>

\* Line 132: if (edge && !this.subGraph.edgeIndexMap.has(edge.id)).
EdgeIsNew(sub, found) == found # <<>> /\ ~MapHas(sub.edgeIndexMap, found[1].id)

\* The test of line 117 off by one.
PastCutoffOffByOne(distance, numHops) == distance >= numHops

\* Line 117: if (current.distance > numHops) break.
PastCutoff(distance, numHops) == distance > numHops

\* Lines 125-139: the loop over current.adjacentSet.  acc holds queue, the
\* distances dist, the subgraph sub and the local edgeCount.
RECURSIVE VisitAdjacent(_, _, _, _)
VisitAdjacent(items, current, edges, acc) ==
  IF items = <<>> THEN acc
  ELSE
    LET item == Head(items)
        acc1 == IF acc.dist[item] = Infinity
                THEN [acc EXCEPT !.dist[item] = acc.dist[current] + 1,
                                 !.queue = Append(acc.queue, item)]
                ELSE acc
        found == getEdgeIDFromNodes(edges, current, item)
        edge == found[1]
        acc2 == IF EdgeIsNew(acc1.sub, found)
                THEN [acc1 EXCEPT
                        !.sub.edgeIndexMap = MapSet(@, edge.id, acc1.edgeCount),
                        !.sub.edgeIDMap = MapSet(@, acc1.edgeCount, edge.id),
                        !.sub.edges = MapSet(@, edge.id, edge),
                        !.edgeCount = acc1.edgeCount + 1]
                ELSE acc1
    IN VisitAdjacent(Tail(items), current, edges, acc2)

\* Lines 115-140: the while loop over the queue.
RECURSIVE BreadthFirst(_, _, _, _)
BreadthFirst(acc, nd, edges, numHops) ==
  IF acc.queue = <<>> THEN acc
  ELSE
    LET current == Head(acc.queue)
        rest == [acc EXCEPT !.queue = Tail(acc.queue)]
    IN IF PastCutoff(acc.dist[current], numHops) THEN rest
       ELSE
         LET acc1 == [rest EXCEPT
                        !.sub.nodeIndexMap = MapSet(@, current.id, acc.nodeCount),
                        !.sub.nodeMap = MapSet(@, acc.nodeCount, current),
                        !.sub.nodes = MapSet(@, current.id, current),
                        !.nodeCount = acc.nodeCount + 1]
         IN BreadthFirst(
              VisitAdjacent(nd[current].adjacentSet, current, edges, acc1),
              nd, edges, numHops)

\* Lines 145-152: the loop that builds subGraph.edgeNodeIndex.
RECURSIVE BuildEdgeNodeIndex(_, _, _)
BuildEdgeNodeIndex(entries, nodeIndexMap, out) ==
  IF entries = <<>> THEN out
  ELSE
    LET edge == Head(entries)[2]
        both == MapHas(nodeIndexMap, edge.node0.id) /\ MapHas(nodeIndexMap, edge.node1.id)
    IN BuildEdgeNodeIndex(
         Tail(entries), nodeIndexMap,
         IF both
         THEN out \o <<MapGet(nodeIndexMap, edge.node0.id),
                       MapGet(nodeIndexMap, edge.node1.id)>>
         ELSE out)

\* Graph.generateSubGraph on graph g with node fields nd.  Yields the new
\* this.subGraph, the node fields after the call, the seed used and the error
\* thrown, if any.
generateSubGraph(g, nd, startNodeID, numHops) ==
  LET seed == IF startNodeID = Undefined THEN DefaultSeed(g, nd) ELSE startNodeID
      nd0 == resetDistance(g, nd)
  IN IF ~MapHas(g.nodes, seed)
     THEN \* root is undefined: root.distance = 0 throws a TypeError.
          [subGraph |-> Graph(TRUE), node |-> nd0, seed |-> seed, error |-> "TypeError"]
     ELSE
       LET root == MapGet(g.nodes, seed)
           start == [queue |-> <<root>>,
                     dist |-> [o \in DOMAIN nd0 |->
                                 IF o = root THEN 0 ELSE nd0[o].distance],
                     sub |-> Graph(TRUE), nodeCount |-> 0, edgeCount |-> 0]
           done == BreadthFirst(start, nd0, g.edges, numHops)
           sub == [done.sub EXCEPT
                     !.edgeNodeIndex =
                        BuildEdgeNodeIndex(done.sub.edges, done.sub.nodeIndexMap, <<>>),
                     !.numberOfNodes = done.nodeCount,
                     !.numberOfEdges = done.edgeCount]
       IN [subGraph |-> sub,
           node |-> [o \in DOMAIN nd0 |-> [nd0[o] EXCEPT !.distance = done.dist[o]]],
           seed |-> seed, error |-> "none"]

\* The numHops arguments tried; DefaultNumHops stands for an omitted numHops.
HopInputs == (0 .. MaxHops) \cup {DefaultNumHops}

\* graph.generateSubGraph({startNodeID, numHops}) for a startNodeID of seeds
\* and a numHops of hops.  fresh records whether every node had distance
\* Infinity when the call began.
GenerateSubGraph(seeds, hops) ==
  \E startNodeID \in seeds, numHops \in hops :
    LET r == generateSubGraph(graph, node, startNodeID, numHops)
    IN /\ node' = r.node
       /\ call' = [op |-> "generateSubGraph", startNodeID |-> startNodeID,
                   numHops |-> numHops, seed |-> r.seed, error |-> r.error,
                   subGraph |-> r.subGraph,
                   fresh |-> \A o \in NodeObjs : node[o].distance = Infinity]
       /\ UNCHANGED <<graph, layouts, firstNodes, firstEdges, forceLayout, layerVars>>

\* ------------------------------------------------------ layout and driver

\* GraphLayoutForceDirected.constructor on graph g: numberOfNodes is fixed
\* here, and position holds an entry for each index of g.nodeMap only.
GraphLayoutForceDirected(g) ==
  [ numberOfNodes |-> g.numberOfNodes,
    position |-> MapKeys(g.nodeMap),
    currentStep |-> 0 ]

\* Whether GraphLayoutForceDirected.step runs to its end on layout l: _L2 and
\* line 320 read position[i] of every index below numberOfNodes, and throw a
\* TypeError on an entry the constructor left undefined.
StepCompletes(l) == \A i \in 0 .. l.numberOfNodes - 1 : i \in l.position

\* GraphLayoutForceDirected.step, as far as the driver is concerned.
step(l) ==
  IF StepCompletes(l) THEN [l EXCEPT !.currentStep = l.currentStep + 1] ELSE l

\* Graph.setLayout.
setLayout(g, layout) == [g EXCEPT !.layout = layout]

\* Graph.startLayout.
startLayout(g) == [g EXCEPT !.layoutRunning = TRUE]

\* Graph.pauseLayout.
pauseLayout(g) == [g EXCEPT !.layoutRunning = FALSE]

\* Line 63: if (this.layoutRunning).
TickSteps(g) == g.layoutRunning

\* Graph.layoutStep: what a tick of the driver does to graph g and the layout
\* objects ls.  invoked: layout.step() was entered; error: what the tick threw.
layoutStep(g, ls) ==
  IF ~TickSteps(g)
  THEN [graph |-> g, layouts |-> ls, invoked |-> FALSE, error |-> "none"]
  ELSE IF g.layout = Null
  THEN \* this.layout.step() on null throws before any step is entered.
       [graph |-> g, layouts |-> ls, invoked |-> FALSE, error |-> "TypeError"]
  ELSE IF ~StepCompletes(ls[g.layout])
  THEN [graph |-> g, layouts |-> ls, invoked |-> TRUE, error |-> "TypeError"]
  ELSE [graph |-> [g EXCEPT !.dataChanged = TRUE],
        layouts |-> [ls EXCEPT ![g.layout] = step(ls[g.layout])],
        invoked |-> TRUE, error |-> "none"]

\* new GraphLayoutForceDirected({graph}) on the root graph.
NewLayout ==
  /\ Len(layouts) < MaxLayouts
  /\ layouts' = Append(layouts, GraphLayoutForceDirected(graph))
  /\ call' = NoCall
  /\ UNCHANGED <<graph, node, firstNodes, firstEdges, forceLayout, layerVars>>

\* graph.setLayout(layout) for a layout object constructed before.
SetLayout ==
  \E l \in DOMAIN layouts :
    /\ graph' = setLayout(graph, l)
    /\ call' = NoCall
    /\ UNCHANGED <<node, layouts, firstNodes, firstEdges, forceLayout, layerVars>>

StartLayout ==
  /\ graph' = startLayout(graph)
  /\ call' = NoCall
  /\ UNCHANGED <<node, layouts, firstNodes, firstEdges, forceLayout, layerVars>>

PauseLayout ==
  /\ graph' = pauseLayout(graph)
  /\ call' = NoCall
  /\ UNCHANGED <<node, layouts, firstNodes, firstEdges, forceLayout, layerVars>>

\* One tick of the setInterval driver of the root graph (line 29).
LayoutStep ==
  LET r == layoutStep(graph, layouts)
  IN /\ \A l \in DOMAIN r.layouts : r.layouts[l].currentStep <= MaxSteps
     /\ graph' = r.graph
     /\ layouts' = r.layouts
     /\ call' = [op |-> "layoutStep", running |-> graph.layoutRunning,
                 layout |-> graph.layout, invoked |-> r.invoked, error |-> r.error]
     /\ UNCHANGED <<node, firstNodes, firstEdges, forceLayout, layerVars>>

\* A JS function as a returned value: the method of the given name.
JSFunction(name) == [kind |-> "function", name |-> name]

\* Graph.isDataChanged: line 82 returns this.isDataChanged, and the only
\* property of that name is the method itself.
isDataChanged(g) == JSFunction("isDataChanged")

\* Graph.isDataStructureChanged: line 86 returns
\* this.isDataStructureChanged, the method itself.
isDataStructureChanged(g) == JSFunction("isDataStructureChanged")

\* graph.isDataChanged().
IsDataChanged ==
  /\ call' = [op |-> "isDataChanged", returned |-> isDataChanged(graph)]
  /\ UNCHANGED <<graph, node, layouts, firstNodes, firstEdges, forceLayout, layerVars>>

\* graph.isDataStructureChanged().
IsDataStructureChanged ==
  /\ call' = [op |-> "isDataStructureChanged", returned |-> isDataStructureChanged(graph)]
  /\ UNCHANGED <<graph, node, layouts, firstNodes, firstEdges, forceLayout, layerVars>>

\* ------------------------------------------------ numbers of the layout

\* A JS number is modelled as NaN, an Infinity with its sign, or a fixed-point
\* number: an integer count of thousandths, the size of the smallest constant
\* of the layout (ka, kr2 and ks are 1e-3).  Products and quotients are
\* rounded towards zero to a thousandth.
Scale == 1000

Num(v) == [kind |-> "number", v |-> v]

NaN == [kind |-> "NaN", v |-> 0]

Inf(sign) == [kind |-> "Infinity", v |-> sign]

IsNaN(x) == x.kind = "NaN"

IsInf(x) == x.kind = "Infinity"

\* Number.isFinite.
IsFinite(x) == x.kind = "number"

Sign(v) == IF v > 0 THEN 1 ELSE IF v < 0 THEN -1 ELSE 0

Abs(v) == IF v < 0 THEN -v ELSE v

\* a / b rounded towards zero, for b # 0.
Quotient(a, b) == Sign(a) * Sign(b) * (Abs(a) \div Abs(b))

\* x + y.
FAdd(x, y) ==
  IF IsNaN(x) \/ IsNaN(y) THEN NaN
  ELSE IF IsInf(x) THEN (IF IsInf(y) /\ y.v # x.v THEN NaN ELSE x)
  ELSE IF IsInf(y) THEN y
  ELSE Num(x.v + y.v)

\* -x.
FNeg(x) == IF IsNaN(x) THEN NaN ELSE [x EXCEPT !.v = -x.v]

\* x - y.
FSub(x, y) == FAdd(x, FNeg(y))

\* x * y.
FMul(x, y) ==
  IF IsNaN(x) \/ IsNaN(y) THEN NaN
  ELSE IF IsInf(x) \/ IsInf(y)
  THEN (IF Sign(x.v) * Sign(y.v) = 0 THEN NaN ELSE Inf(Sign(x.v) * Sign(y.v)))
  ELSE Num(Quotient(x.v * y.v, Scale))

\* x / y: 0 / 0 is NaN and a nonzero number over 0 an Infinity.
FDiv(x, y) ==
  IF IsNaN(x) \/ IsNaN(y) THEN NaN
  ELSE IF IsInf(x) THEN (IF IsInf(y) THEN NaN ELSE Inf(x.v * (IF y.v < 0 THEN -1 ELSE 1)))
  ELSE IF IsInf(y) THEN Num(0)
  ELSE IF y.v = 0 THEN (IF x.v = 0 THEN NaN ELSE Inf(Sign(x.v)))
  ELSE Num(Quotient(x.v * Scale, y.v))

\* x > y; false when either is NaN.
FGt(x, y) ==
  /\ ~IsNaN(x) /\ ~IsNaN(y)
  /\ IF IsInf(x) THEN x.v > 0 /\ x # y
     ELSE IF IsInf(y) THEN y.v < 0
     ELSE x.v > y.v

\* The largest r in lo .. hi with r * r <= n.
RECURSIVE Root(_, _, _)
Root(n, lo, hi) ==
  IF lo = hi THEN lo
  ELSE LET mid == (lo + hi + 1) \div 2
       IN IF mid * mid <= n THEN Root(n, mid, hi) ELSE Root(n, lo, mid - 1)

\* Math.sqrt(x).
FSqrt(x) ==
  IF IsNaN(x) THEN NaN
  ELSE IF IsInf(x) THEN (IF x.v > 0 THEN x ELSE NaN)
  ELSE IF x.v < 0 THEN NaN
  ELSE Num(Root(x.v * Scale, 0, x.v + Scale))

\* ------------------------------------------------- GraphLayoutForceDirected

\* The dof option of the constructor.
Dof == 2

Axes == 1 .. Dof

\* The samples of randn(0, 2) for a position: three points of the plane, two
\* of them closer than the sum of two node sizes.
PositionSamples ==
  { <<Num(0), Num(0)>>, <<Num(400), Num(0)>>, <<Num(0), Num(2000)>> }

\* The samples of randn(0, 1) for the slots of velocity.
VelocitySamples == { Num(0), Num(100) }

\* The reference a Graph holds in layout to the one layout modelled in full.
ForceLayoutRef == MaxLayouts + 1

\* No such layout has been constructed.
NoLayout == [built |-> FALSE, pc |-> 0]

\* GraphLayoutForceDirected._initializeNodeSize.
initializeNodeSize == Num(300)

\* node.type of a GraphNode n: the constructor stores its argument type in
\* attributes.type (line 211) and no code assigns a field type.
TypeField(n) == Undefined

\* GraphLayoutForceDirected._initializeNodeMass.
initializeNodeMass(nd, n) ==
  IF TypeField(n) = "device"
  THEN FMul(Num(nd[n].degree * Scale), Num(2 * Scale))
  ELSE FDiv(Num(nd[n].degree * Scale), Num(10 * Scale))

\* GraphLayoutForceDirected.constructor on graph g with node fields nd.
\* random gives the position sampled for each index and sample the velocity
\* sampled for the slots.  Arrays are functions on the indices from 0; an
\* entry of position, size or mass the loop of lines 285-290 does not reach
\* is undefined: <<>> for a position, NaN (what arithmetic makes of
\* undefined) for a size or mass.  pc, entered, ticker, begun and completed
\* are not fields of the object: pc is the position of the thread inside step
\* (0 outside), entered counts the calls of step that have begun and not
\* ended, ticker is the holder whose layoutStep called the running step,
\* begun is the position buffer as the latest step found it, and completed is
\* the position buffer as the constructor or the latest completed step left
\* it.
ForceDirected(g, nd, random, sample) ==
  LET N == g.numberOfNodes
      index == 0 .. N - 1
      position == [i \in index |-> IF MapHas(g.nodeMap, i) THEN random[i] ELSE <<>>]
  IN [ built |-> TRUE,
       graph |-> g,
       numberOfNodes |-> N,
       currentStep |-> 0,
       ka |-> Num(1), kr2 |-> Num(1), ks |-> Num(1), ks2 |-> Num(10),
       dt |-> Num(10 * Scale), damping |-> Num(950), balanceLength |-> Num(4 * Scale),
       position |-> position,
       size |-> [i \in index |-> IF MapHas(g.nodeMap, i) THEN initializeNodeSize ELSE NaN],
       mass |-> [i \in index |->
                   IF MapHas(g.nodeMap, i)
                   THEN initializeNodeMass(nd, MapGet(g.nodeMap, i)) ELSE NaN],
       distance |-> [p \in index \X index |-> Num(0)],
       direction |-> [p \in index \X index |-> [d \in Axes |-> Num(0)]],
       acceleration |-> [i \in index |-> [d \in Axes |-> Num(0)]],
       velocity |-> [i \in index |-> [d \in Axes |-> sample]],
       ymean |-> [d \in Axes |-> Num(0)],
       pc |-> 0, entered |-> 0, ticker |-> "none",
       begun |-> position, completed |-> position ]

\* GraphLayoutForceDirected._L2.
RECURSIVE L2(_, _, _)
L2(a, b, i) ==
  IF i > Len(a) THEN Num(0)
  ELSE FAdd(L2(a, b, i + 1), FMul(FSub(a[i], b[i]), FSub(a[i], b[i])))

\* Whether _xtod throws: with two nodes or more _L2 reads every position, and
\* a.length or b[i] of an undefined one is a TypeError.
XtodThrows(l) == l.numberOfNodes >= 2 /\ \E i \in DOMAIN l.position : l.position[i] = <<>>

\* Line 372: (data[i][k] - data[j][k]) / d.
Unit(diff, d) == FDiv(diff, d)

\* GraphLayoutForceDirected._xtod on the positions data, which are all
\* defined: the distance and the direction of every pair of different nodes.
xtod(l, data) ==
  LET d(i, j) == FSqrt(L2(data[i], data[j], 1))
      dir(i, j) == [k \in Axes |-> Unit(FSub(data[i][k], data[j][k]), d(i, j))]
  IN [l EXCEPT
        !.distance = [p \in DOMAIN l.distance |->
                        IF p[1] < p[2] THEN d(p[1], p[2])
                        ELSE IF p[1] > p[2] THEN d(p[2], p[1])
                        ELSE l.distance[p]],
        !.direction = [p \in DOMAIN l.direction |->
                         IF p[1] < p[2] THEN dir(p[1], p[2])
                         ELSE IF p[1] > p[2]
                         THEN [k \in Axes |-> FNeg(dir(p[2], p[1])[k])]
                         ELSE l.direction[p]]]

\* Lines 406-420: the force of node j on node i added to gsum.  gsum has dof
\* entries, so the write of gsum[2] at line 420 is dropped when dof is 2.
NodeForce(l, i, j, gsum) ==
  LET dist == l.distance[<<i, j>>]
      dist2 == FMul(dist, dist)
      distBoundary == FSub(dist, FAdd(l.size[i], l.size[j]))
      F == IF FGt(distBoundary, Num(0))
           THEN FMul(FDiv(l.kr2, dist2), l.mass[j])
           ELSE FMul(FNeg(l.ks2), distBoundary)
      gsum1 == [d \in Axes |-> FAdd(gsum[d], FMul(F, l.direction[<<i, j>>][d]))]
  IN IF Dof > 2
     THEN [gsum1 EXCEPT ![3] = FAdd(@, FMul(FNeg(l.ka), l.direction[<<i, j>>][3]))]
     ELSE gsum1

\* Lines 404-421: the loop over j for node i.
RECURSIVE NodeForces(_, _, _, _)
NodeForces(l, i, j, gsum) ==
  IF j >= l.numberOfNodes THEN gsum
  ELSE NodeForces(l, i, j + 1, IF i = j THEN gsum ELSE NodeForce(l, i, j, gsum))

\* Lines 397-426: the loop over i; gsum is the buffer this.ymean.
RECURSIVE NodeInteractions(_, _)
NodeInteractions(l, i) ==
  IF i >= l.numberOfNodes THEN l
  ELSE LET gsum == NodeForces(l, i, 0, [d \in Axes |-> Num(0)])
       IN NodeInteractions(
            [l EXCEPT !.ymean = gsum, !.acceleration[i] = gsum], i + 1)

\* GraphLayoutForceDirected._processNodeInteractions, positions all defined.
processNodeInteractions(l) == NodeInteractions(xtod(l, l.position), 0)

\* Lines 430-444: the loop over the pairs of this.graph.edgeNodeIndex.
RECURSIVE EdgeInteractions(_, _)
EdgeInteractions(l, edgeNodeIndex) ==
  IF Len(edgeNodeIndex) < 2 THEN l
  ELSE LET node0Idx == edgeNodeIndex[1]
           node1Idx == edgeNodeIndex[2]
           dist == l.distance[<<node0Idx, node1Idx>>]
           F0 == FMul(FMul(FSub(l.balanceLength, dist), l.ks), l.mass[node1Idx])
           F1 == FMul(FMul(FSub(l.balanceLength, dist), l.ks), l.mass[node0Idx])
           l0 == [l EXCEPT !.acceleration[node0Idx] =
                    [d \in Axes |-> FAdd(@[d], FMul(F0, l.direction[<<node0Idx, node1Idx>>][d]))]]
           l1 == [l0 EXCEPT !.acceleration[node1Idx] =
                    [d \in Axes |-> FAdd(@[d], FMul(F1, l.direction[<<node1Idx, node0Idx>>][d]))]]
       IN EdgeInteractions(l1, Tail(Tail(edgeNodeIndex)))

\* GraphLayoutForceDirected._processEdgeInteractions.
processEdgeInteractions(l) == EdgeInteractions(l, l.graph.edgeNodeIndex)

\* GraphLayoutForceDirected._calculateAcceleration, positions all defined.
calculateAcceleration(l) ==
  LET l1 == processEdgeInteractions(processNodeInteractions(l))
  IN [l1 EXCEPT !.velocity =
        [i \in DOMAIN l1.velocity |->
           [d \in Axes |->
              FMul(FAdd(l1.velocity[i][d], FMul(l1.acceleration[i][d], l1.dt)), l1.damping)]]]

\* Lines 308-312 of step.  When _xtod throws the step ends there; the pairs
\* it wrote into distance and direction before are left out, as the next
\* step writes every pair again before reading one.
stepAccelerate(l) ==
  LET l0 == IF l.currentStep > 100 /\ FGt(Num(50 * Scale), l.dt)
            THEN [l EXCEPT !.dt = FMul(l.dt, Num(1005))] ELSE l
  IN IF XtodThrows(l0)
     THEN [layout |-> l0, error |-> "TypeError"]
     ELSE [layout |-> calculateAcceleration(l0), error |-> "none"]

\* Lines 318-323: the loop over i from node i on; it throws at the first
\* undefined position.
RECURSIVE Integrate(_, _)
Integrate(l, i) ==
  IF i >= l.numberOfNodes THEN [layout |-> l, error |-> "none"]
  ELSE IF l.position[i] = <<>> THEN [layout |-> l, error |-> "TypeError"]
  ELSE LET p == [d \in Axes |-> FAdd(l.position[i][d], l.velocity[i][d])]
       IN Integrate([l EXCEPT !.position[i] = p,
                              !.ymean = [d \in Axes |-> FAdd(@[d], p[d])]], i + 1)

\* Lines 314-323 of step.
stepIntegrate(l) == Integrate([l EXCEPT !.ymean = [d \in Axes |-> Num(0)]], 0)

\* Lines 325-333 of step: the centroid is subtracted, currentStep incremented.
stepRecenter(l) ==
  [l EXCEPT
     !.position = [i \in DOMAIN l.position |->
                     [d \in Axes |->
                        FSub(l.position[i][d],
                             FDiv(l.ymean[d], Num(l.numberOfNodes * Scale)))]],
     !.currentStep = l.currentStep + 1]

\* The Graph object layout l was constructed on, as it is now: the root
\* graph, or the subgraph, which only l.graph refers to.
GraphOf(l) == IF l.graph.isSubGraph THEN l.graph ELSE graph

\* The graphs whose drivers can hold the layout: the root graph and the graph
\* it was constructed on.
Holders == {"root", "own"}

Holder(h) == IF h = "root" THEN graph ELSE GraphOf(forceLayout)

\* A timer callback or a render frame started in the middle of a step.
CallStackAny(l) == TRUE

\* Line 29: setInterval hands layoutStep to the event loop, which starts a
\* callback, a timer's or a render frame's, only when no other is running.
CallStackEmpty(l) == l.pc = 0

\* new GraphLayoutForceDirected({graph: g, dof}) for g the root graph or the
\* subgraph just returned by generateSubGraph.
NewForceLayout ==
  /\ ~forceLayout.built
  /\ \E g \in {graph} \cup (IF call.op = "generateSubGraph" /\ call.error = "none"
                            THEN {call.subGraph} ELSE {}) :
       \E random \in [0 .. g.numberOfNodes - 1 -> PositionSamples],
          sample \in VelocitySamples :
         forceLayout' = ForceDirected(g, node, random, sample)
  /\ call' = NoCall
  /\ UNCHANGED <<graph, node, layouts, firstNodes, firstEdges, layerVars>>

\* g.setLayout(layout); g.startLayout() in one task of the client, for g the
\* root graph or the graph the layout was constructed on.
RunForceLayout ==
  /\ forceLayout.built
  /\ CallStackEmpty(forceLayout)
  /\ \E h \in Holders :
       LET g == startLayout(setLayout(Holder(h), ForceLayoutRef))
       IN IF h = "root" \/ ~forceLayout.graph.isSubGraph
          THEN graph' = g /\ UNCHANGED forceLayout
          ELSE forceLayout' = [forceLayout EXCEPT !.graph = g] /\ UNCHANGED graph
  /\ call' = NoCall
  /\ UNCHANGED <<node, layouts, firstNodes, firstEdges, layerVars>>

\* A tick of the driver of holder h that finds the layout running: layoutStep
\* calls layout.step(), which begins.
ForceTick ==
  /\ forceLayout.built
  /\ forceLayout.currentStep < MaxSteps
  /\ CallStackEmpty(forceLayout)
  /\ \E h \in Holders :
       /\ TickSteps(Holder(h))
       /\ Holder(h).layout = ForceLayoutRef
       /\ forceLayout' = [forceLayout EXCEPT !.pc = 1, !.entered = @ + 1, !.ticker = h,
                                            !.begun = forceLayout.position]
  /\ call' = NoCall
  /\ UNCHANGED <<graph, node, layouts, firstNodes, firstEdges, layerVars>>

\* The step ends with an error: the tick ends with it, before line 65.
StepThrows(l) == [l EXCEPT !.pc = 0, !.entered = @ - 1]

\* The running step executes lines 308-312.
StepAccelerate ==
  /\ forceLayout.built /\ forceLayout.pc = 1
  /\ LET r == stepAccelerate(forceLayout)
     IN forceLayout' = IF r.error = "none" THEN [r.layout EXCEPT !.pc = 2]
                       ELSE StepThrows(r.layout)
  /\ UNCHANGED <<graph, call, node, layouts, firstNodes, firstEdges, layerVars>>

\* The running step executes lines 314-323.
StepIntegrate ==
  /\ forceLayout.built /\ forceLayout.pc = 2
  /\ LET r == stepIntegrate(forceLayout)
     IN forceLayout' = IF r.error = "none" THEN [r.layout EXCEPT !.pc = 3]
                       ELSE StepThrows(r.layout)
  /\ UNCHANGED <<graph, call, node, layouts, firstNodes, firstEdges, layerVars>>

\* The running step executes lines 325-333 and returns to layoutStep, which
\* sets dataChanged of the ticking graph (line 65).
StepRecenter ==
  /\ forceLayout.built /\ forceLayout.pc = 3
  /\ LET l == stepRecenter(forceLayout)
         done == [l EXCEPT !.pc = 0, !.entered = @ - 1, !.completed = l.position]
     IN IF forceLayout.ticker = "root" \/ ~forceLayout.graph.isSubGraph
        THEN /\ graph' = [graph EXCEPT !.dataChanged = TRUE]
             /\ forceLayout' = done
        ELSE /\ forceLayout' = [done EXCEPT !.graph.dataChanged = TRUE]
             /\ UNCHANGED graph
  /\ UNCHANGED <<call, node, layouts, firstNodes, firstEdges, layerVars>>

\* layout.getNodePosition() from a render frame.
GetNodePosition ==
  /\ forceLayout.built
  /\ CallStackEmpty(forceLayout)
  /\ call' = [op |-> "getNodePosition", position |-> forceLayout.position]
  /\ UNCHANGED <<graph, node, layouts, firstNodes, firstEdges, forceLayout, layerVars>>

\* ------------------------------------------------------------ layer manager

\* Cap on the updateLayers calls a client makes.
MaxRenders == 2

\* new Layer(props), of a class whose lifecycle method named fails throws (of
\* which "none" does) and whose getSubLayers returns the layers sub.  render
\* is the updateLayers call the object was created for and parent the id of
\* the layer that rendered it: an application creates its layers anew for
\* every call, so the two tell apart objects that carry the same props.
Layer(id, pickable, fails, sub) ==
  [id |-> id, pickable |-> pickable, fails |-> fails, sub |-> sub,
   render |-> 0, parent |-> "none"]

\* The layer l as a sublayer rendered by the layer of id parent.
SubLayer(l, parent) == [l EXCEPT !.parent = parent]

\* The layers, by class, that an application passes to updateLayers: plain
\* layers under the ids "x" and "y", and a composite layer "z" that renders
\* two sublayers.
LayerClasses ==
  { Layer("x", TRUE, "none", <<>>),
    Layer("x", FALSE, "initializeLayer", <<>>),
    Layer("y", TRUE, "updateLayer", <<>>),
    Layer("y", FALSE, "finalizeLayer", <<>>),
    Layer("x", TRUE, "getSubLayers", <<>>),
    Layer("z", FALSE, "none",
          << SubLayer(Layer("y", TRUE, "getSubLayers", <<>>), "z"),
             SubLayer(Layer("x", FALSE, "initializeLayer", <<>>), "z") >>) }

\* The object of class l created for the updateLayers call number r, with
\* the sublayers it renders in that call.
RECURSIVE SubLayersForRender(_, _)
SubLayersForRender(sub, r) ==
  IF sub = <<>> THEN <<>>
  ELSE <<[Head(sub) EXCEPT !.render = r]>> \o SubLayersForRender(Tail(sub), r)

ForRender(l, r) == [l EXCEPT !.render = r, !.sub = SubLayersForRender(l.sub, r)]

\* Every Layer object of the model.
LayerObjs ==
  UNION { {ForRender(l, r)} \cup {ForRender(l, r).sub[i] : i \in DOMAIN l.sub} :
          <<l, r>> \in LayerClasses \X (1 .. MaxRenders) }

\* A null entry of the newLayers array.
NullLayer == [null |-> TRUE]

\* layer.props: the props object handed to the constructor of l.
Props(l) == [id |-> l.id, pickable |-> l.pickable, render |-> l.render, parent |-> l.parent]

\* LayerManager.constructor; no code assigns this.controller.  renders counts
\* the updateLayers calls made.
LayerManager ==
  [layers |-> <<>>, prevLayers |-> <<>>, controller |-> Undefined, renders |-> 0]

\* A Layer before initializeLayer: state is Null or the index of a state
\* object in layerState; oldProps is <<>> (undefined) or <<props>>.
LayerFields == [state |-> Null, oldProps |-> <<>>]

\* No error (null), or <<error>>: an error says which call threw it.
NoError == <<>>

Error(method, l) == <<[method |-> method, layer |-> l]>>

\* error || err.
OrElse(error, err) == IF error # NoError THEN error ELSE err

Throws(l, method) == l.fails = method

\* The bookkeeping of a lifecycle call on l: calls lists the calls made and
\* threw those that threw, both in order.
Invoke(acc, method, l) ==
  [acc EXCEPT !.calls = Append(@, [method |-> method, layer |-> l]),
              !.threw = IF Throws(l, method)
                        THEN Append(@, [method |-> method, layer |-> l]) ELSE @]

\* Layer.initializeLayer: creates the state object of l unless it throws.
\* The state object has no layer field yet (lines 194-202 are commented out).
initializeLayer(acc, l) ==
  LET acc1 == Invoke(acc, "initializeLayer", l)
  IN IF Throws(l, "initializeLayer") THEN acc1
     ELSE [acc1 EXCEPT !.state = Append(@, [layer |-> <<>>]),
                       !.layer[l].state = Len(acc1.state) + 1]

\* LayerManager._initializeNewLayer; the error it returns is dropped by its
\* caller (line 118), so none is kept here.
initializeNewLayer(acc, l) ==
  IF acc.layer[l].state = Null THEN initializeLayer(acc, l) ELSE acc

\* LayerManager._updateLayer; the error it returns is dropped by its caller
\* (line 116).
updateLayer(acc, l) ==
  IF acc.layer[l].oldProps # <<>> THEN Invoke(acc, "updateLayer", l) ELSE acc

\* Whether the sanity checks of _transferLayerState pass (lines 148-149).
TransferAsserts(acc, oldLayer, newLayer) ==
  acc.layer[oldLayer].state # Null /\ oldLayer # newLayer

\* LayerManager._transferLayerState past its sanity checks (lines 151-161).
transferLayerState(acc, oldLayer, newLayer) ==
  LET state == acc.layer[oldLayer].state
  IN [acc EXCEPT !.layer[newLayer].state = state,
                 !.state[state].layer = <<newLayer>>,
                 !.layer[newLayer].oldProps = <<Props(oldLayer)>>,
                 !.layer[oldLayer].state = Null]

\* Line 104: oldLayerMap[newLayer.id], <<>> for undefined or null.
MatchingLayer(oldLayerMap, newLayer) ==
  IF MapHas(oldLayerMap, newLayer.id) /\ MapGet(oldLayerMap, newLayer.id) # NullLayer
  THEN <<MapGet(oldLayerMap, newLayer.id)>> ELSE <<>>

\* The map left as it is where line 105 clears the entry.
ClearMatchSkipped(oldLayerMap, newLayer) == oldLayerMap

\* Line 105: oldLayerMap[newLayer.id] = null.
ClearMatch(oldLayerMap, newLayer) == MapSet(oldLayerMap, newLayer.id, NullLayer)

RECURSIVE matchSublayers(_, _)

\* Lines 120-133: push the layer, render its sublayers and match them.  The
\* error the inner _matchSublayers returns is dropped (line 128).
renderSublayers(acc, newLayer) ==
  LET acc1 == [Invoke(acc, "getSubLayers", newLayer) EXCEPT
                 !.generatedLayers = Append(@, newLayer)]
  IN IF Throws(newLayer, "getSubLayers")
     THEN [acc1 EXCEPT !.error = OrElse(@, Error("getSubLayers", newLayer))]
     ELSE IF newLayer.sub = <<>> THEN acc1
     ELSE [matchSublayers(newLayer.sub, [acc1 EXCEPT !.error = NoError])
             EXCEPT !.error = acc1.error]

\* Lines 99-140: the body of the loop of _matchSublayers for one new layer.
\* acc.seen lists the new layers the loop has taken up, in order.
matchLayer(acc, newLayer) ==
  LET found == MatchingLayer(acc.oldLayerMap, newLayer)
      acc0 == [acc EXCEPT !.oldLayerMap = ClearMatch(@, newLayer),
                          !.seen = Append(@, newLayer)]
  IN IF found # <<>>
     THEN IF TransferAsserts(acc0, found[1], newLayer)
          THEN renderSublayers(
                 updateLayer(transferLayerState(acc0, found[1], newLayer), newLayer),
                 newLayer)
          ELSE [acc0 EXCEPT !.error = OrElse(@, Error("assert", newLayer))]
     ELSE renderSublayers(initializeNewLayer(acc0, newLayer), newLayer)

\* LayerManager._matchSublayers; acc.error is its local variable error.
matchSublayers(newLayers, acc) ==
  IF newLayers = <<>> THEN acc
  ELSE matchSublayers(Tail(newLayers), matchLayer(acc, Head(newLayers)))

\* LayerManager._finalizeLayer on a layer that holds state, with its error
\* stored as the caller does.
finalizeLayer(acc, l) ==
  [Invoke(acc, "finalizeLayer", l) EXCEPT
     !.layer[l].state = Null,
     !.error = IF Throws(l, "finalizeLayer") THEN Error("finalizeLayer", l) ELSE NoError]

\* Lines 169-170: error = error || this._finalizeLayer(layer) evaluates the
\* call only while error is null.
Finalizes(acc, l) == acc.layer[l].state # Null /\ acc.error = NoError

\* LayerManager._finalizeOldLayers; acc.error is its local variable error.
RECURSIVE finalizeOldLayers(_, _)
finalizeOldLayers(oldLayers, acc) ==
  IF oldLayers = <<>> THEN acc
  ELSE finalizeOldLayers(
         Tail(oldLayers),
         IF Finalizes(acc, Head(oldLayers)) THEN finalizeLayer(acc, Head(oldLayers)) ELSE acc)

\* Lines 71-78: the map of the old layers by id, the first layer of an id kept.
RECURSIVE OldLayerMap(_, _)
OldLayerMap(oldLayers, map) ==
  IF oldLayers = <<>> THEN map
  ELSE OldLayerMap(
         Tail(oldLayers),
         IF MapHas(map, Head(oldLayers).id) THEN map
         ELSE MapSet(map, Head(oldLayers).id, Head(oldLayers)))

\* LayerManager.updateLayers with _updateLayers: the manager, the layer
\* fields and the state objects after the call, the error thrown if any, and
\* the lifecycle calls made and the new layers taken up.
updateLayers(m, ls, st, newLayers) ==
  LET filtered == SelectSeq(newLayers, LAMBDA l : l # NullLayer)
      oldLayers == m.layers
      start == [oldLayerMap |-> OldLayerMap(oldLayers, <<>>),
                generatedLayers |-> <<>>, layer |-> ls, state |-> st,
                error |-> NoError, calls |-> <<>>, threw |-> <<>>, seen |-> <<>>]
      matched == matchSublayers(filtered, start)
      finalized == finalizeOldLayers(oldLayers, [matched EXCEPT !.error = NoError])
  IN [manager |-> [m EXCEPT !.prevLayers = oldLayers,
                            !.layers = finalized.generatedLayers,
                            !.renders = m.renders + 1],
      layer |-> finalized.layer, state |-> finalized.state,
      error |-> OrElse(matched.error, finalized.error),
      calls |-> finalized.calls, threw |-> finalized.threw, seen |-> finalized.seen]

\* Layer.pickingWithRay: the picking result of l for the ray.
pickingWithRay(l, ray) == [picked |-> l.id, ray |-> ray]

\* LayerManager.processPickingAction: the calls delivered to
\* controller.processPickingResult and the error thrown, if any.
RECURSIVE processPickingAction(_, _, _, _)
processPickingAction(m, layers, ray, delivered) ==
  IF layers = <<>> THEN [delivered |-> delivered, error |-> NoError]
  ELSE LET l == Head(layers)
       IN IF Props(l).pickable = TRUE
          THEN IF m.controller = Undefined
               THEN \* this.controller.processPickingResult throws a TypeError.
                    [delivered |-> delivered, error |-> Error("processPickingResult", l)]
               ELSE processPickingAction(
                      m, Tail(layers), ray,
                      Append(delivered, [layer |-> l, result |-> pickingWithRay(l, ray)]))
          ELSE processPickingAction(m, Tail(layers), ray, delivered)

\* The newLayers arrays an application passes in its call number r: at most
\* two different layers created for the call, or one of them after a null.
NewLayerArrays(r) ==
  LET objs == {ForRender(l, r) : l \in LayerClasses}
  IN {<<>>} \cup {<<a>> : a \in objs} \cup {<<NullLayer, a>> : a \in objs}
     \cup {<<a, b>> : <<a, b>> \in {p \in objs \X objs : p[1] # p[2]}}

\* layerManager.updateLayers({newLayers}).  before holds the fields of the
\* layers when the call began.
UpdateLayers ==
  /\ layerManager.renders < MaxRenders
  /\ \E newLayers \in NewLayerArrays(layerManager.renders + 1) :
       LET r == updateLayers(layerManager, layer, layerState, newLayers)
       IN /\ layerManager' = r.manager
          /\ layer' = r.layer
          /\ layerState' = r.state
          /\ call' = [op |-> "updateLayers", newLayers |-> newLayers,
                      error |-> r.error, calls |-> r.calls, threw |-> r.threw,
                      seen |-> r.seen, before |-> layer]
  /\ UNCHANGED <<graph, node, layouts, firstNodes, firstEdges, forceLayout>>

\* layerManager.processPickingAction({ray}).
ProcessPickingAction ==
  LET r == processPickingAction(layerManager, layerManager.layers, "ray", <<>>)
  IN /\ call' = [op |-> "processPickingAction",
                 delivered |-> r.delivered, error |-> r.error]
     /\ UNCHANGED <<graph, node, layouts, firstNodes, firstEdges, forceLayout, layerVars>>

\* ---------------------------------------------------------- specifications

Init ==
  /\ graph = Graph(FALSE)
  /\ node = [o \in NodeObjs |-> NodeFields]
  /\ layouts = <<>>
  /\ firstNodes = {}
  /\ firstEdges = {}
  /\ call = NoCall
  /\ forceLayout = NoLayout
  /\ layerManager = LayerManager
  /\ layer = [l \in LayerObjs |-> LayerFields]
  /\ layerState = <<>>


\* The unregistered node object with the least id, if any is left.
NextNodeObj ==
  LET left == {o \in UniqueNodeObjs : ~MapHas(graph.nodes, o.id)}
  IN {o \in left : \A p \in left : o.id = p.id \/ IdBefore(o.id, p.id)}

\* A client that registers nodes with distinct ids in the order of their ids,
\* links them, adds edges and extracts subgraphs from the seeds it names.
Next ==
  \/ AddNode(NextNodeObj)
  \/ AddEdge(UniqueEdgeObjs)
  \/ AddAdjacentNode(MaxLinks)
  \/ GenerateSubGraph(Ids, 0 .. MaxHops)

Spec == Init /\ [][Next]_vars

\* A client that adds node and edge objects, some under an id already used.
NextStore ==
  \/ AddNode(NodeObjs)
  \/ AddEdge(EdgeObjs)

SpecStore == Init /\ [][NextStore]_vars

\* A client that registers and links nodes in any order and extracts subgraphs
\* without naming a seed or a number of hops.
NextSeed ==
  \/ AddNode(NodeObjs)
  \/ AddAdjacentNode(MaxDegree * Cardinality(NodeObjs))
  \/ GenerateSubGraph({Undefined}, {DefaultNumHops})

SpecSeed == Init /\ [][NextSeed]_vars

\* A client that grows the graph, constructs and installs layouts and starts
\* and pauses the layout while the driver ticks.
NextLayout ==
  \/ AddNode(NextNodeObj)
  \/ NewLayout
  \/ SetLayout
  \/ StartLayout
  \/ PauseLayout
  \/ LayoutStep

SpecLayout == Init /\ [][NextLayout]_vars

\* Only the node of id "a" has neighbours.
LinksFromSeed(nd) == \A o \in NodeObjs : o.id # "a" => nd[o].degree = 0

\* A client that builds a graph, linking its first node to the others,
\* extracts the subgraph around that node, constructs a layout on one of the
\* two graphs, and runs it from the drivers while a renderer reads.
NextForce ==
  \/ (~forceLayout.built /\ AddNode(NextNodeObj))
  \/ (~forceLayout.built /\ AddAdjacentNode(MaxLinks) /\ LinksFromSeed(node'))
  \/ (~forceLayout.built /\ AddEdge(UniqueEdgeObjs))
  \/ (~forceLayout.built /\ GenerateSubGraph({"a"}, {MaxHops}))
  \/ NewForceLayout
  \/ RunForceLayout
  \/ (CallStackEmpty(forceLayout) /\ PauseLayout)
  \/ ForceTick
  \/ StepAccelerate
  \/ StepIntegrate
  \/ StepRecenter
  \/ GetNodePosition

SpecForce == Init /\ [][NextForce]_vars

\* A client that builds a graph with links between any of its nodes, extracts
\* the subgraph around its first node and constructs a layout on one of the
\* two graphs.
NextMass ==
  \/ (~forceLayout.built /\ AddNode(NextNodeObj))
  \/ (~forceLayout.built /\ AddAdjacentNode(MaxLinks))
  \/ (~forceLayout.built /\ GenerateSubGraph({"a"}, {MaxHops}))
  \/ NewForceLayout

SpecMass == Init /\ [][NextMass]_vars

\* The node objects and the edge objects that carry the ids "a" and "a_b".
SameIdNodeObjs == {o \in NodeObjs : o.id = "a"}

SameIdEdgeObjs == {e \in EdgeObjs : e.id = EdgeKey("a", "b")}

\* A client that adds node and edge objects, some of them twice or under an
\* id already used, installs and starts layouts while the driver ticks, and
\* reads the two change flags.
NextFlags ==
  \/ AddNode(SameIdNodeObjs)
  \/ AddEdge(SameIdEdgeObjs)
  \/ NewLayout
  \/ SetLayout
  \/ StartLayout
  \/ LayoutStep
  \/ IsDataChanged
  \/ IsDataStructureChanged

SpecFlags == Init /\ [][NextFlags]_vars

\* An application that renders its layers anew and picks.
NextLayers ==
  \/ UpdateLayers
  \/ ProcessPickingAction

SpecLayers == Init /\ [][NextLayers]_vars

\* ------------------------------------------------------------------ claims

IsSubGraphCall == call.op = "generateSubGraph"

\* A generateSubGraph call that returned its subgraph.
Returned == IsSubGraphCall /\ call.error = "none"

\* C1: after any sequence of addNode and addEdge calls, numberOfNodes and
\* numberOfEdges equal the number of distinct ids added so far, and the object
\* stored under each id is the first one added with that id.
C1_CountAndFirstWriter ==
  /\ graph.numberOfNodes = Cardinality({o.id : o \in firstNodes})
  /\ MapValues(graph.nodes) = firstNodes
  /\ \A i \in DOMAIN graph.nodes : graph.nodes[i][1] = graph.nodes[i][2].id
  /\ graph.numberOfEdges = Cardinality({e.id : e \in firstEdges})
  /\ MapValues(graph.edges) = firstEdges
  /\ \A i \in DOMAIN graph.edges : graph.edges[i][1] = graph.edges[i][2].id

\* C1's case: addNode was just called with an object whose id was taken by
\* another object.
C1_Witness ==
  /\ call.op = "addNode"
  /\ MapGet(graph.nodes, call.arg.id) # call.arg
  /\ graph.numberOfNodes = 2

\* The node objects at most k hops from src along the adjacency sets.
RECURSIVE Within(_, _, _)
Within(nd, src, k) ==
  IF k = 0 THEN {src}
  ELSE LET w == Within(nd, src, k - 1)
       IN w \cup {nd[x].adjacentSet[i] : <<x, i>> \in
                    {<<y, j>> \in w \X (1 .. Cardinality(NodeObjs)) :
                       j <= Len(nd[y].adjacentSet)}}

\* C2: on a graph whose nodes all had distance Infinity, the node set of the
\* subgraph returned for seed S and numHops k is exactly the set of nodes whose
\* hop distance from S along the adjacency sets is at most k.
C2_NodesWithinHops ==
  (Returned /\ call.fresh) =>
    /\ MapValues(call.subGraph.nodes) =
         Within(node, MapGet(graph.nodes, call.seed), call.numHops)
    /\ \A i \in DOMAIN call.subGraph.nodes :
         call.subGraph.nodes[i][1] = call.subGraph.nodes[i][2].id

\* C2's case: a fresh call with numHops 1 that kept a neighbour of the seed and
\* left out a node two hops away.
C2_Witness ==
  /\ Returned /\ call.fresh /\ call.numHops = 1
  /\ Len(call.subGraph.nodes) = 2
  /\ Within(node, MapGet(graph.nodes, call.seed), 2) #
       Within(node, MapGet(graph.nodes, call.seed), 1)

\* The edges of g with both endpoints among the nodes of the graph sub.
InducedEdges(g, sub) ==
  {e \in MapValues(g.edges) :
     MapHas(sub.nodes, e.node0.id) /\ MapHas(sub.nodes, e.node1.id)}

\* C3: the edges, edgeIndexMap and numberOfEdges of the returned subgraph are
\* exactly the parent edges with both endpoints in the subgraph; with numHops 0
\* the subgraph is the seed alone, without edges.
C3_EdgesInduced ==
  (Returned /\ call.fresh) =>
    /\ MapValues(call.subGraph.edges) = InducedEdges(graph, call.subGraph)
    /\ MapKeys(call.subGraph.edgeIndexMap) =
         {e.id : e \in InducedEdges(graph, call.subGraph)}
    /\ call.subGraph.numberOfEdges = Cardinality(InducedEdges(graph, call.subGraph))
    /\ call.numHops = 0 =>
         /\ MapKeys(call.subGraph.nodes) = {call.seed}
         /\ call.subGraph.numberOfEdges = 0

\* The node fields with every distance at Infinity, as on a fresh graph.
FreshNode == [o \in DOMAIN node |-> [node[o] EXCEPT !.distance = Infinity]]

\* C4: a call returns the node and edge sets the same call returns on a fresh
\* graph, whatever calls came before it.
C4_IndependentOfEarlierCalls ==
  Returned =>
    LET fresh == generateSubGraph(graph, FreshNode, call.startNodeID, call.numHops)
    IN /\ MapValues(call.subGraph.nodes) = MapValues(fresh.subGraph.nodes)
       /\ MapValues(call.subGraph.edges) = MapValues(fresh.subGraph.edges)

\* indexMap gives its keys the indices 0 .. count-1 in insertion order.
DenseIndex(indexMap, count) ==
  /\ Len(indexMap) = count
  /\ \A i \in 1 .. count : indexMap[i][2] = i - 1

\* C5: in the returned subgraph nodeIndexMap assigns 0 .. numberOfNodes-1
\* without gaps or repeats in dequeue order, the seed first; nodeMap is its
\* inverse; edgeIndexMap assigns 0 .. numberOfEdges-1 with edgeIDMap its inverse.
C5_DenseIndices ==
  Returned =>
    LET sub == call.subGraph
        n == sub.numberOfNodes
        m == sub.numberOfEdges
    IN /\ DenseIndex(sub.nodeIndexMap, n)
       /\ sub.nodeIndexMap[1] = <<call.seed, 0>>
       /\ Len(sub.nodeMap) = n
       /\ \A i \in 1 .. n :
            /\ sub.nodeMap[i][1] = i - 1
            /\ sub.nodeMap[i][2].id = sub.nodeIndexMap[i][1]
       /\ \A i \in 1 .. n, j \in 1 .. n :
            i < j => node[sub.nodeMap[i][2]].distance <= node[sub.nodeMap[j][2]].distance
       /\ Cardinality(MapKeys(sub.nodeIndexMap)) = n
       /\ DenseIndex(sub.edgeIndexMap, m)
       /\ Len(sub.edgeIDMap) = m
       /\ \A i \in 1 .. m : sub.edgeIDMap[i] = <<i - 1, sub.edgeIndexMap[i][1]>>
       /\ Cardinality(MapKeys(sub.edgeIndexMap)) = m

\* C5's case: a returned subgraph of three nodes and two edges.
C5_Witness ==
  /\ Returned
  /\ call.subGraph.numberOfNodes = 3
  /\ call.subGraph.numberOfEdges = 2

\* C6: for the same graph and seed, every node and edge of the subgraph for
\* numHops k is in the subgraph for numHops k+1.
C6_GrowsWithHops ==
  [][ ( /\ Returned
        /\ call'.op = "generateSubGraph" /\ call'.error = "none"
        /\ call'.seed = call.seed
        /\ call'.numHops = call.numHops + 1 )
      => /\ MapValues(call.subGraph.nodes) \subseteq MapValues(call'.subGraph.nodes)
         /\ MapValues(call.subGraph.edges) \subseteq MapValues(call'.subGraph.edges)
    ]_vars

\* The nodes of type 'driver' registered in g.
Drivers(g) == {o \in MapValues(g.nodes) : o.type = "driver"}

\* The drivers of g whose degree no driver exceeds.
TopDrivers(g, nd) ==
  {o \in Drivers(g) : \A p \in Drivers(g) : nd[p].degree <= nd[o].degree}

\* The id of the first inserted of the drivers of highest degree.
FirstTopDriver(g, nd) ==
  g.nodes[CHOOSE i \in DOMAIN g.nodes :
            /\ g.nodes[i][2] \in TopDrivers(g, nd)
            /\ \A j \in 1 .. i - 1 : g.nodes[j][2] \notin TopDrivers(g, nd)][1]

\* C7: without startNodeID the seed is the driver of highest degree, the first
\* inserted among several; stated for graphs where a driver has a neighbour.
C7_SeedIsFirstTopDriver ==
  ( /\ IsSubGraphCall /\ call.startNodeID = Undefined
    /\ \E o \in Drivers(graph) : node[o].degree > 0 )
  => call.seed = FirstTopDriver(graph, node)

\* C8: without startNodeID and without a node of type 'driver', the call fails
\* with a SeedNotFoundError; stated for graphs that hold a node.
C8_SeedNotFoundError ==
  ( /\ IsSubGraphCall /\ call.startNodeID = Undefined
    /\ graph.numberOfNodes > 0 /\ Drivers(graph) = {} )
  => call.error = "SeedNotFoundError"

IsTick == call.op = "layoutStep"

\* C9: a tick invokes layout.step() exactly when the running flag is true;
\* startLayout and pauseLayout are idempotent; while the flag is false no tick
\* changes a layout, and only startLayout raises the flag.
C9_TickStepsIffRunning ==
  [][ /\ call'.op = "layoutStep" => (call'.invoked <=> graph.layoutRunning)
      /\ (StartLayout /\ graph.layoutRunning) => graph' = graph
      /\ (PauseLayout /\ ~graph.layoutRunning) => graph' = graph
      /\ ~graph.layoutRunning => (graph'.layoutRunning => StartLayout)
      /\ (~graph.layoutRunning /\ call'.op = "layoutStep") => layouts' = layouts
    ]_vars

\* No layout is installed on g, or the installed one was built for another
\* number of nodes than g has now.
ConfigurationError(g, ls) ==
  g.layout = Null \/ ls[g.layout].numberOfNodes # g.numberOfNodes

\* C10: with no layout installed, or one whose node count differs from the
\* graph's, no tick executes a layout step.
C10_ConfigurationErrorBlocks ==
  (IsTick /\ ConfigurationError(graph, layouts)) => ~call.invoked

\* The layout of SpecForce is constructed.
Built == forceLayout.built

\* C11: no step of the layout begins while another is executing, also when
\* the drivers of two graphs hold the layout, and getNodePosition between
\* ticks returns the position buffer as the latest completed step (or the
\* constructor, before any) left it.
C11_StepsAtomic ==
  Built =>
    /\ forceLayout.entered <= 1
    /\ (call.op = "getNodePosition" => call.position = forceLayout.completed)

\* C11's case: the drivers of the root graph and of the subgraph both hold
\* the running layout, two steps have completed, and a render frame reads
\* the positions, which the steps have moved.
C11_Witness ==
  /\ Built
  /\ forceLayout.graph.isSubGraph
  /\ \A h \in Holders : Holder(h).layout = ForceLayoutRef /\ Holder(h).layoutRunning
  /\ forceLayout.currentStep >= 2
  /\ call.op = "getNodePosition"
  /\ call.position # forceLayout.begun

\* Every coordinate of the vector v is a finite number.
FiniteVector(v) == \A d \in DOMAIN v : IsFinite(v[d])

\* Two nodes had identical positions when the latest step began.
Coincident(l) ==
  \E i, j \in DOMAIN l.begun :
    i # j /\ l.begun[i] # <<>> /\ l.begun[i] = l.begun[j] /\ FiniteVector(l.begun[i])

\* C12: a step that began with two nodes at identical positions writes no
\* NaN and no Infinity into the direction cache, the acceleration, the
\* velocity or the position of any node.
C12_CoincidentPairGuarded ==
  (Built /\ forceLayout.pc # 1 /\ Coincident(forceLayout)) =>
    /\ \A p \in DOMAIN forceLayout.direction : FiniteVector(forceLayout.direction[p])
    /\ \A i \in DOMAIN forceLayout.position :
         /\ FiniteVector(forceLayout.acceleration[i])
         /\ FiniteVector(forceLayout.velocity[i])
         /\ FiniteVector(forceLayout.position[i])

\* The sum over the nodes from i on of position[i][d].
RECURSIVE PositionSum(_, _, _)
PositionSum(l, d, i) ==
  IF i >= l.numberOfNodes THEN Num(0)
  ELSE FAdd(l.position[i][d], PositionSum(l, d, i + 1))

\* A step of layout l has completed and none is executing.
StepCompleted(l) == l.currentStep >= 1 /\ l.pc = 0

\* C13: after every completed step of a layout with at least one node the
\* positions sum to zero on every axis, up to the rounding of the division by
\* the number of nodes.
C13_CentroidAtOrigin ==
  (Built /\ forceLayout.numberOfNodes >= 1 /\ StepCompleted(forceLayout)) =>
    \A d \in Axes :
      LET sum == PositionSum(forceLayout, d, 0)
      IN IsFinite(sum) /\ Abs(sum.v) <= forceLayout.numberOfNodes

\* An updateLayers call has just returned or thrown.
IsUpdate == call.op = "updateLayers"

\* The new layers an updateLayers call took up, sublayers included.
Seen == {call.seen[i] : i \in DOMAIN call.seen}

\* The layers of the previous layer list.
PrevLayers == {layerManager.prevLayers[i] : i \in DOMAIN layerManager.prevLayers}

\* The new layer n holds the state object the old layer o held when the call
\* began, and o holds none.
OwnsStateOf(n, o) ==
  /\ layer[n].state = call.before[o].state
  /\ layerState[layer[n].state].layer = <<n>>
  /\ layer[n].oldProps = <<Props(o)>>
  /\ layer[o].state = Null

\* initializeLayer was called on n during the call.
Initialized(n) ==
  \E i \in DOMAIN call.calls : call.calls[i] = [method |-> "initializeLayer", layer |-> n]

\* No state object is held by two layers.
NoSharedState ==
  \A l1 \in LayerObjs, l2 \in LayerObjs :
    (l1 # l2 /\ layer[l1].state # Null) => layer[l1].state # layer[l2].state

\* C14 as stated: after updateLayers every new layer whose id is that of a
\* previous layer that held state owns that state object, and the old layer
\* holds none; a layer without a match is initialized; no state object is
\* held by two layers.
C14_EveryMatchOwnsState ==
  IsUpdate =>
    /\ \A n \in Seen, o \in PrevLayers :
         (n.id = o.id /\ call.before[o].state # Null) => OwnsStateOf(n, o)
    /\ \A n \in Seen : (\A o \in PrevLayers : o.id # n.id) => Initialized(n)
    /\ NoSharedState

\* The first of the new layers taken up under the id of n is n.
FirstSeen(n) ==
  \E i \in DOMAIN call.seen :
    call.seen[i] = n /\ \A j \in 1 .. i - 1 : call.seen[j].id # n.id

\* The first layer of the previous layer list under the id of o is o.
FirstPrev(o) ==
  \E i \in DOMAIN layerManager.prevLayers :
    layerManager.prevLayers[i] = o
    /\ \A j \in 1 .. i - 1 : layerManager.prevLayers[j].id # o.id

\* C14, amended: the first new layer taken up under an id owns the state
\* object of the first previous layer of that id, if that layer held state,
\* and that old layer holds none; a new layer whose id no previous layer has,
\* and every later new layer under an id, is initialized; no state object is
\* held by two layers.
C14_FirstMatchOwnsState ==
  IsUpdate =>
    /\ \A n \in Seen, o \in PrevLayers :
         (n.id = o.id /\ FirstSeen(n) /\ FirstPrev(o) /\ call.before[o].state # Null)
           => OwnsStateOf(n, o)
    /\ \A n \in Seen :
         ((\A o \in PrevLayers : o.id # n.id) \/ ~FirstSeen(n)) => Initialized(n)
    /\ NoSharedState

\* C14's case: a call in which one new layer took over the state of a
\* previous layer and a later new layer of the same id was initialized.
C14_Witness ==
  /\ IsUpdate
  /\ \E n \in Seen, o \in PrevLayers, m \in Seen :
       /\ n.id = o.id /\ call.before[o].state # Null /\ FirstSeen(n)
       /\ layer[n].state = call.before[o].state
       /\ m.id = n.id /\ m # n /\ Initialized(m) /\ layer[m].state # Null

\* C15: updateLayers throws the first error a lifecycle call threw during the
\* call, and returns normally only if none threw.
C15_ThrowsFirstError ==
  IsUpdate =>
    /\ call.threw # <<>> => call.error = <<call.threw[1]>>
    /\ call.error = NoError => call.threw = <<>>

\* The pickable layers of the layer list, in its order.
PickableLayers == SelectSeq(layerManager.layers, LAMBDA l : Props(l).pickable)

\* C16: processPickingAction delivers to the picking-result hook one call for
\* each pickable layer of the layer list, with the layer and its picking
\* result, in the order of the list, and none for another layer.
C16_OneCallPerPickableLayer ==
  call.op = "processPickingAction" =>
    /\ Len(call.delivered) = Len(PickableLayers)
    /\ \A i \in DOMAIN call.delivered :
         call.delivered[i] =
           [layer |-> PickableLayers[i], result |-> pickingWithRay(PickableLayers[i], "ray")]

\* The flat endpoint buffer of g holds two entries per edge of g, each the
\* index of a node of g.
EdgeNodeIndexShape(g) ==
  /\ Len(g.edgeNodeIndex) = 2 * g.numberOfEdges
  /\ \A i \in DOMAIN g.edgeNodeIndex : g.edgeNodeIndex[i] \in 0 .. g.numberOfNodes - 1

\* C17: in the root graph and in every returned subgraph, getEdgeNodeIndex
\* holds exactly two entries per edge, each a node index below numberOfNodes.
C17_EdgeNodeIndexShape ==
  /\ EdgeNodeIndexShape(graph)
  /\ Returned => EdgeNodeIndexShape(call.subGraph)

\* nodeIndexMap and nodeMap of g are mutually inverse bijections between the
\* ids of the nodes of g and 0 .. numberOfNodes-1.
InverseIndexMaps(g) ==
  /\ MapKeys(g.nodeIndexMap) = MapKeys(g.nodes)
  /\ MapValues(g.nodeIndexMap) = 0 .. g.numberOfNodes - 1
  /\ MapKeys(g.nodeMap) = 0 .. g.numberOfNodes - 1
  /\ \A i \in DOMAIN g.nodeIndexMap :
       /\ MapHas(g.nodeMap, g.nodeIndexMap[i][2])
       /\ MapGet(g.nodeMap, g.nodeIndexMap[i][2]).id = g.nodeIndexMap[i][1]

\* C18: in every state of the root graph, also one built by addNode alone, the
\* two index maps are mutually inverse bijections between the node ids and
\* 0 .. numberOfNodes-1, and every layout constructed on the graph holds a
\* position for every index below its numberOfNodes.
C18_IndexMapsInverse ==
  /\ InverseIndexMaps(graph)
  /\ \A l \in DOMAIN layouts : layouts[l].position = 0 .. layouts[l].numberOfNodes - 1

\* Both endpoints of every edge of g are registered in the node map of g.
EndpointsRegistered(g) ==
  \A e \in MapValues(g.edges) :
    MapHas(g.nodes, e.node0.id) /\ MapHas(g.nodes, e.node1.id)

\* C19: every edge held by the root graph, after any addNode and addEdge
\* calls, and every edge of a returned subgraph has both its endpoint nodes in
\* the node map of the same graph.
C19_EndpointsRegistered ==
  /\ EndpointsRegistered(graph)
  /\ Returned => EndpointsRegistered(call.subGraph)

\* C20: after any addAdjacentNode calls, repeats of a neighbour included, the
\* degree of a node equals the size of its adjacency set.
C20_DegreeIsSetSize ==
  \A o \in NodeObjs : node[o].degree = Len(node[o].adjacentSet)

\* The old layer o held state when the call began and a new layer of the call
\* holds that state object now: o was matched and its state transferred.
Matched(o) ==
  /\ call.before[o].state # Null
  /\ \E n \in Seen : layer[n].state = call.before[o].state

\* The old layer o held state when the call began and was not matched.
Unmatched(o) == call.before[o].state # Null /\ ~Matched(o)

\* The number of finalizeLayer calls the updateLayers call made on o.
FinalizeCalls(o) ==
  Cardinality({i \in DOMAIN call.calls :
                 call.calls[i] = [method |-> "finalizeLayer", layer |-> o]})

\* C21: by the end of updateLayers every previous layer that was not matched
\* and held state has had finalizeLayer called exactly once and holds no
\* state, also when the finalization of another old layer threw; a matched
\* old layer is never finalized.
C21_OldLayersFinalizedOnce ==
  IsUpdate =>
    \A o \in PrevLayers :
      /\ Unmatched(o) => (FinalizeCalls(o) = 1 /\ layer[o].state = Null)
      /\ Matched(o) => FinalizeCalls(o) = 0

\* The mass of a node of category type and of the given degree: degree * 2
\* for a device and degree / 10 for every other category.
CategoryMass(type, degree) ==
  IF type = "device" THEN Num(degree * 2 * Scale)
  ELSE FDiv(Num(degree * Scale), Num(10 * Scale))

\* C22: the mass the layout assigns at construction to every node of its
\* graph is degree * 2 when the node's category is 'device' and degree / 10
\* otherwise.
C22_MassByCategory ==
  Built =>
    \A i \in DOMAIN forceLayout.mass :
      MapHas(forceLayout.graph.nodeMap, i) =>
        LET n == MapGet(forceLayout.graph.nodeMap, i)
        IN forceLayout.mass[i] = CategoryMass(n.type, node[n].degree)

\* An addNode or addEdge call has inserted a new element into the root graph.
Inserted == Len(graph.nodes) + Len(graph.edges) > 0

\* The driver has executed a step of a layout.
StepExecuted == \E l \in DOMAIN layouts : layouts[l].currentStep > 0

\* C23: isDataStructureChanged() returns the boolean true exactly when an
\* addNode or addEdge call has inserted a new element, and isDataChanged()
\* returns the boolean true exactly when the driver has executed a layout
\* step.  A returned boolean is a value of kind "boolean" with the field v.
C23_FlagAccessors ==
  /\ call.op = "isDataStructureChanged" =>
       (call.returned.kind = "boolean" /\ call.returned.v = Inserted)
  /\ call.op = "isDataChanged" =>
       (call.returned.kind = "boolean" /\ call.returned.v = StepExecuted)

====
